---- MODULE Spec2Model ----
(***************************************************************************)
(* Versatile-Debouncer: the integrator debouncer with the event queue      *)
(* (Src/debounce.c).  A DB_Handle owns an array of DB_Button, a GPIO read  *)
(* function and a ring of EVENT_QUEUE_SIZE events with front/back indices. *)
(* The GPIO read function is the environment: every call of it is an       *)
(* input, drawn from BOOLEAN.                                              *)
(***************************************************************************)
EXTENDS Integers, Sequences, FiniteSets, TLC

\* ------------------------------------------------------------------ bounds
\* Largest threshold a button is configured with.
MaxThreshold == 3

\* ------------------------------------------------------- program constants
EVENT_QUEUE_SIZE == 8

curr_state == 1
falling_edge == 2
rising_edge == 4

RISING == "RISING"
FALLING == "FALLING"

\* ------------------------------------------------- uint8_t bit arithmetic
Bit(x, k) == (x \div (2 ^ k)) % 2

\* x & y on 8 bits
BitAnd(x, y) ==
    LET RECURSIVE Sum(_)
        Sum(k) == IF k < 0 THEN 0
                  ELSE Bit(x, k) * Bit(y, k) * (2 ^ k) + Sum(k - 1)
    IN Sum(7)

\* x | y on 8 bits
BitOr(x, y) == x + y - BitAnd(x, y)

\* ~x on 8 bits (the int-promoted complement is only ever and-ed with a uint8_t)
BitNot(x) == 255 - x

\* ------------------------------------------------------------ program state
VARIABLES
    db,     \* the DB_Handle: btns (the caller's DB_Button array), count,
            \* ev_queue, front, back
    call,   \* the last API call made: its name, its button argument, its result
            \* and, for DB_Init and DB_Update, what each pin read (in)
    \* history variables: they record what has happened, the code never reads them
    watch,      \* which history this run records: "none", "runs" or "queue"
    hist,       \* per button: the current and the previous run of equal samples
                \* and the last two edges emitted
    recent,     \* the last EVENT_QUEUE_SIZE events pushed, oldest first
    retained,   \* the events a drop-oldest FIFO of RetainCap places would hold
    sincePop,   \* events pushed since the last DB_Pop_Event call (saturating)
    overflowed  \* an event has been dropped on overflow since DB_Init

vars == <<db, call, watch, hist, recent, retained, sincePop, overflowed>>

Buttons == 0 .. (db.count - 1)

\* The pin of the i-th button of the array (pins are opaque identifiers).
PinOf(i) == i

Event(p, t) == [pin |-> p, ev_type |-> t]

\* A slot of ev_queue that was never written.
Unwritten == [pin |-> -1, ev_type |-> "none"]

Slots == 0 .. (EVENT_QUEUE_SIZE - 1)

\* The DB_Event * that DB_Pop_Event returns for an empty queue.
NULL == [slot |-> -1, ev |-> Unwritten]

BoolToInt(b) == IF b THEN 1 ELSE 0

\* --------------------------------------------------------------- the queue
\* _DB_Push_Event without the overflow branch.
_DB_Push_Event_NoDrop(q, ev) ==
    [ev_queue |-> [q.ev_queue EXCEPT ![q.back] = ev],
     back     |-> (q.back + 1) % EVENT_QUEUE_SIZE,
     front    |-> q.front]

\* _DB_Push_Event on the queue fields q = [ev_queue, front, back]
_DB_Push_Event(q, ev) ==
    LET back1 == (q.back + 1) % EVENT_QUEUE_SIZE
    IN [ev_queue |-> [q.ev_queue EXCEPT ![q.back] = ev],
        back     |-> back1,
        front    |-> IF back1 = q.front
                     THEN (back1 + 1) % EVENT_QUEUE_SIZE  \* overflow, dump event
                     ELSE q.front]

QueueOf(d) == [ev_queue |-> d.ev_queue, front |-> d.front, back |-> d.back]

WithQueue(d, q) ==
    [d EXCEPT !.ev_queue = q.ev_queue, !.front = q.front, !.back = q.back]

\* ---------------------------------------------------------- the integrator
\* IntegrateHigh with <= for < in the saturation test.
IntegrateHigh_CountsPastThreshold(btn) ==
    IF btn._counter <= btn.threshold
    THEN [btn |-> [btn EXCEPT !._counter = btn._counter + 1], evs |-> <<>>]
    ELSE IF BitAnd(btn._state, curr_state) = 0
         THEN [btn |-> [btn EXCEPT !._state =
                           BitOr(BitOr(btn._state, rising_edge), curr_state)],
               evs |-> <<Event(btn.pin, RISING)>>]
         ELSE [btn |-> [btn EXCEPT !._state = BitOr(btn._state, curr_state)],
               evs |-> <<>>]

\* IntegrateHigh without the test of the current level before the edge.
IntegrateHigh_NoLevelTest(btn) ==
    IF btn._counter < btn.threshold
    THEN [btn |-> [btn EXCEPT !._counter = btn._counter + 1], evs |-> <<>>]
    ELSE [btn |-> [btn EXCEPT !._state =
                      BitOr(BitOr(btn._state, rising_edge), curr_state)],
          evs |-> <<Event(btn.pin, RISING)>>]

\* IntegrateLow without the test of the current level before the edge.
IntegrateLow_NoLevelTest(btn) ==
    IF btn._counter # 0
    THEN [btn |-> [btn EXCEPT !._counter = btn._counter - 1], evs |-> <<>>]
    ELSE [btn |-> [btn EXCEPT !._state =
                      BitAnd(BitOr(btn._state, falling_edge), BitNot(curr_state))],
          evs |-> <<Event(btn.pin, FALLING)>>]

\* IntegrateLow that assigns the falling-edge bit instead of or-ing it in.
IntegrateLow_AssignsLatch(btn) ==
    IF btn._counter # 0
    THEN [btn |-> [btn EXCEPT !._counter = btn._counter - 1], evs |-> <<>>]
    ELSE IF BitAnd(btn._state, curr_state) = 1
         THEN [btn |-> [btn EXCEPT !._state = falling_edge],
               evs |-> <<Event(btn.pin, FALLING)>>]
         ELSE [btn |-> [btn EXCEPT !._state =
                           BitAnd(btn._state, BitNot(curr_state))],
               evs |-> <<>>]

\* The rising branch flipping the level on the sample that brings the counter
\* to the threshold.
IntegrateHigh_FlipsOnReach(btn) ==
    IF btn._counter < btn.threshold
    THEN LET b1 == [btn EXCEPT !._counter = btn._counter + 1]
         IN IF b1._counter = btn.threshold /\ BitAnd(btn._state, curr_state) = 0
            THEN [btn |-> [b1 EXCEPT !._state =
                              BitOr(BitOr(btn._state, rising_edge), curr_state)],
                  evs |-> <<Event(btn.pin, RISING)>>]
            ELSE [btn |-> b1, evs |-> <<>>]
    ELSE [btn |-> [btn EXCEPT !._state = BitOr(btn._state, curr_state)],
          evs |-> <<>>]

\* The branch of DB_Update's loop body taken when the pin reads true: the
\* updated button and the events it pushes, in push order.
IntegrateHigh(btn) ==
    IF btn._counter < btn.threshold
    THEN [btn |-> [btn EXCEPT !._counter = btn._counter + 1], evs |-> <<>>]
    ELSE IF BitAnd(btn._state, curr_state) = 0
         THEN [btn |-> [btn EXCEPT !._state =
                           BitOr(BitOr(btn._state, rising_edge), curr_state)],
               evs |-> <<Event(btn.pin, RISING)>>]
         ELSE [btn |-> [btn EXCEPT !._state = BitOr(btn._state, curr_state)],
               evs |-> <<>>]

\* The falling branch of a debouncer that restarts its count on a sample
\* against the level instead of counting down.
IntegrateLow_Resets(btn) ==
    IF btn._counter # 0
    THEN [btn |-> [btn EXCEPT !._counter = 0], evs |-> <<>>]
    ELSE IF BitAnd(btn._state, curr_state) = 1
         THEN [btn |-> [btn EXCEPT !._state =
                           BitAnd(BitOr(btn._state, falling_edge),
                                  BitNot(curr_state))],
               evs |-> <<Event(btn.pin, FALLING)>>]
         ELSE [btn |-> [btn EXCEPT !._state =
                           BitAnd(btn._state, BitNot(curr_state))],
               evs |-> <<>>]

\* The branch taken when the pin reads false.
IntegrateLow(btn) ==
    IF btn._counter # 0
    THEN [btn |-> [btn EXCEPT !._counter = btn._counter - 1], evs |-> <<>>]
    ELSE IF BitAnd(btn._state, curr_state) = 1
         THEN [btn |-> [btn EXCEPT !._state =
                           BitAnd(BitOr(btn._state, falling_edge),
                                  BitNot(curr_state))],
               evs |-> <<Event(btn.pin, FALLING)>>]
         ELSE [btn |-> [btn EXCEPT !._state =
                           BitAnd(btn._state, BitNot(curr_state))],
               evs |-> <<>>]

\* One pass of the loop body for button btn whose pin reads in.
UpdateButton(btn, in) == IF in THEN IntegrateHigh(btn) ELSE IntegrateLow(btn)

RECURSIVE PushAll(_, _)
PushAll(q, evs) ==
    IF evs = <<>> THEN q ELSE PushAll(_DB_Push_Event(q, Head(evs)), Tail(evs))

\* The for loop walking the array from its last button to its first.
RECURSIVE UpdateLoop_Backwards(_, _, _)
UpdateLoop_Backwards(st, i, rd) ==
    IF i >= st.db.count THEN st
    ELSE LET j  == st.db.count - 1 - i
             r  == UpdateButton(st.db.btns[j], rd[j])
             d1 == [st.db EXCEPT !.btns[j] = r.btn]
             d2 == WithQueue(d1, PushAll(QueueOf(d1), r.evs))
         IN UpdateLoop_Backwards([db |-> d2, evs |-> st.evs \o r.evs], i + 1, rd)

\* The for loop with one sample, that of the first pin, used for every button.
RECURSIVE UpdateLoop_SharedSample(_, _, _)
UpdateLoop_SharedSample(st, i, rd) ==
    IF i >= st.db.count THEN st
    ELSE LET r  == UpdateButton(st.db.btns[i], rd[0])
             d1 == [st.db EXCEPT !.btns[i] = r.btn]
             d2 == WithQueue(d1, PushAll(QueueOf(d1), r.evs))
         IN UpdateLoop_SharedSample([db |-> d2, evs |-> st.evs \o r.evs], i + 1, rd)

\* The for loop of DB_Update from index i on; rd[i] is what the i-th pin reads.
\* st.db is the handle, st.evs the events pushed so far by this call.
RECURSIVE UpdateLoop(_, _, _)
UpdateLoop(st, i, rd) ==
    IF i >= st.db.count THEN st
    ELSE LET r  == UpdateButton(st.db.btns[i], rd[i])
             d1 == [st.db EXCEPT !.btns[i] = r.btn]
             d2 == WithQueue(d1, PushAll(QueueOf(d1), r.evs))
         IN UpdateLoop([db |-> d2, evs |-> st.evs \o r.evs], i + 1, rd)

DB_Rd(btn) == BitAnd(btn._state, curr_state) # 0

\* DB_Rising that reports the latch and leaves it set.
DB_Rising_NoClear(btn) ==
    IF BitAnd(btn._state, rising_edge) # 0
    THEN [btn |-> btn, ret |-> TRUE]
    ELSE [btn |-> btn, ret |-> FALSE]

\* DB_Rising / DB_Falling on a button: the button afterwards and the result.
DB_Rising(btn) ==
    IF BitAnd(btn._state, rising_edge) # 0
    THEN [btn |-> [btn EXCEPT !._state = BitAnd(btn._state, BitNot(rising_edge))],
          ret |-> TRUE]
    ELSE [btn |-> btn, ret |-> FALSE]

\* DB_Falling that clears the rising latch along with the falling one.
DB_Falling_ClearsBoth(btn) ==
    IF BitAnd(btn._state, falling_edge) # 0
    THEN [btn |-> [btn EXCEPT !._state =
                      BitAnd(btn._state, BitNot(BitOr(rising_edge, falling_edge)))],
          ret |-> TRUE]
    ELSE [btn |-> btn, ret |-> FALSE]

DB_Falling(btn) ==
    IF BitAnd(btn._state, falling_edge) # 0
    THEN [btn |-> [btn EXCEPT !._state = BitAnd(btn._state, BitNot(falling_edge))],
          ret |-> TRUE]
    ELSE [btn |-> btn, ret |-> FALSE]

\* DB_Pop_Event that advances front before it takes the slot's address.
DB_Pop_Event_AdvancesFirst(q) ==
    IF q.back = q.front
    THEN [q |-> q, ret |-> NULL]
    ELSE LET front1 == (q.front + 1) % EVENT_QUEUE_SIZE
         IN [q   |-> [q EXCEPT !.front = front1],
             ret |-> [slot |-> front1, ev |-> q.ev_queue[front1]]]

\* DB_Pop_Event on the queue fields: the queue afterwards and the result, a
\* pointer to a slot of ev_queue (with the event it holds) or NULL.
DB_Pop_Event(q) ==
    IF q.back = q.front
    THEN [q |-> q, ret |-> NULL]
    ELSE [q   |-> [q EXCEPT !.front = (q.front + 1) % EVENT_QUEUE_SIZE],
          ret |-> [slot |-> q.front, ev |-> q.ev_queue[q.front]]]

\* ------------------------------------- the variant with a previous-level bit
\* The debouncer that keeps the level of before the DB_Update in a bit of
\* _state and latches an edge where that bit and the level bit differ.  Its
\* level bit is curr_state; its DB_Init and DB_Rd are those above.
H_prev_state == 2
H_falling_edge == 4
H_rising_edge == 8

\* The loop pass that looks for edges first, then moves the level bit into the
\* history bit, then integrates: an edge is latched one DB_Update late.
H_UpdateButton_EdgesFirst(btn, in) ==
    LET s0 == btn._state
        s1 == IF BitAnd(s0, curr_state) # 0
              THEN IF BitAnd(s0, H_prev_state) = 0
                   THEN BitOr(s0, H_rising_edge) ELSE s0
              ELSE IF BitAnd(s0, H_prev_state) # 0
                   THEN BitOr(s0, H_falling_edge) ELSE s0
        s2 == BitOr(BitAnd(s1, curr_state) * 2, BitAnd(s1, BitNot(H_prev_state)))
    IN IF in
       THEN IF btn._counter < btn.threshold
            THEN [btn EXCEPT !._state = s2, !._counter = btn._counter + 1]
            ELSE [btn EXCEPT !._state = BitOr(s2, curr_state)]
       ELSE IF btn._counter # 0
            THEN [btn EXCEPT !._state = s2, !._counter = btn._counter - 1]
            ELSE [btn EXCEPT !._state = BitAnd(s2, BitNot(curr_state))]

\* One pass of the loop body of this variant's DB_Update for button btn whose
\* pin reads in: the level bit is copied into the history bit, the counter or
\* the level bit is updated, and the latch of the edge between the two bits,
\* if there is one, is set.
H_UpdateButton(btn, in) ==
    LET s1 == BitOr(BitAnd(btn._state, curr_state) * 2,
                    BitAnd(btn._state, BitNot(H_prev_state)))
        b2 == IF in
              THEN IF btn._counter < btn.threshold
                   THEN [btn EXCEPT !._state = s1, !._counter = btn._counter + 1]
                   ELSE [btn EXCEPT !._state = BitOr(s1, curr_state)]
              ELSE IF btn._counter # 0
                   THEN [btn EXCEPT !._state = s1, !._counter = btn._counter - 1]
                   ELSE [btn EXCEPT !._state = BitAnd(s1, BitNot(curr_state))]
        s2 == b2._state
    IN IF BitAnd(s2, curr_state) # 0
       THEN IF BitAnd(s2, H_prev_state) = 0
            THEN [b2 EXCEPT !._state = BitOr(s2, H_rising_edge)]
            ELSE b2
       ELSE IF BitAnd(s2, H_prev_state) # 0
            THEN [b2 EXCEPT !._state = BitOr(s2, H_falling_edge)]
            ELSE b2

H_DB_Rising(btn) ==
    IF BitAnd(btn._state, H_rising_edge) # 0
    THEN [btn |-> [btn EXCEPT !._state = BitAnd(btn._state, BitNot(H_rising_edge))],
          ret |-> TRUE]
    ELSE [btn |-> btn, ret |-> FALSE]

H_DB_Falling(btn) ==
    IF BitAnd(btn._state, H_falling_edge) # 0
    THEN [btn |-> [btn EXCEPT !._state = BitAnd(btn._state, BitNot(H_falling_edge))],
          ret |-> TRUE]
    ELSE [btn |-> btn, ret |-> FALSE]

\* -------------------------------------------------------- history variables
Min(a, b) == IF a < b THEN a ELSE b

\* The last n elements of a sequence.
LastN(n, seq) ==
    IF Len(seq) <= n THEN seq ELSE SubSeq(seq, Len(seq) - n + 1, Len(seq))

\* Run lengths and edge counts are recorded up to these values, then saturate.
RunCap == MaxThreshold + 2
EdgeCap == 2
SincePopCap == EVENT_QUEUE_SIZE + 1

\* The number of places of the ring that can hold an unread event.
RetainCap == EVENT_QUEUE_SIZE - 1

\* A run of equal samples read for one button: the sample, the number of
\* DB_Update calls in the run, the button's _counter and _state before the
\* run's first sample, and the edges emitted during the run.  n = 0: no run yet.
NoRun(btn) ==
    [val |-> FALSE, n |-> 0, c0 |-> btn._counter, s0 |-> btn._state,
     rising |-> 0, falling |-> 0]

CountOf(evs, t) == Cardinality({k \in 1 .. Len(evs) : evs[k].ev_type = t})

\* The history of a button after a DB_Update that read in for it, found the
\* button as btn and pushed evs for it: the current run, of the run before it
\* its length and whether it was a run of true samples that began with the
\* button confirmed low (_counter = 0, _state = 0: level low, no latch set),
\* and the types of the last two edges emitted.
Record(h, btn, in, evs) ==
    LET r == CountOf(evs, RISING)
        f == CountOf(evs, FALLING)
        edges1 == IF evs = <<>> THEN h.edges
                  ELSE LastN(2, h.edges \o [k \in 1 .. Len(evs) |-> evs[k].ev_type])
    IN IF h.cur.n > 0 /\ h.cur.val = in
       THEN [h EXCEPT !.cur.n = Min(h.cur.n + 1, RunCap),
                      !.cur.rising = Min(h.cur.rising + r, EdgeCap),
                      !.cur.falling = Min(h.cur.falling + f, EdgeCap),
                      !.edges = edges1]
       ELSE [cur   |-> [val |-> in, n |-> 1, c0 |-> btn._counter, s0 |-> btn._state,
                        rising |-> Min(r, EdgeCap), falling |-> Min(f, EdgeCap)],
             prev  |-> [n |-> h.cur.n,
                        fromLow |-> h.cur.n > 0 /\ h.cur.val
                                      /\ h.cur.c0 = 0 /\ h.cur.s0 = 0],
             edges |-> edges1]

\* The events between front and back, oldest first.
Contents(q) ==
    [k \in 1 .. ((q.back - q.front + EVENT_QUEUE_SIZE) % EVENT_QUEUE_SIZE) |->
        q.ev_queue[(q.front + k - 1) % EVENT_QUEUE_SIZE]]

\* The events of q's contents that belong to the button of pin p.
OfPin(evs, p) == SelectSeq(evs, LAMBDA e : e.pin = p)

\* What is recorded for a button, by the kind of history w:
\*   "runs"  the runs of equal samples (Record);
\*   "own"   the events a never-read queue of the button's own, with the
\*           places of ev_queue, would hold, and the number of DB_Update
\*           calls since DB_Init;
\*   "since" the number of DB_Update calls since the level last changed, or
\*           since DB_Init, and how many times it has changed (0, 1, more);
\*   "ticks" the number of DB_Update calls since DB_Init;
\*   "polls" whether the level has gone from false to true in a DB_Update
\*           since the last DB_Rising call on the button (rose), or since the
\*           last DB_Rising or DB_Changed call (roseC); fell and fellC
\*           likewise for true to false and DB_Falling;
\*   "variant" the button as the variant with a previous-level bit would
\*           have it, given the same DB_Init, samples and polls.
NoHistory(w, btn) ==
    CASE w = "own"   -> [own |-> <<>>, ticks |-> 0]
      [] w = "variant" -> btn
      [] w = "polls" -> [rose |-> FALSE, roseC |-> FALSE,
                         fell |-> FALSE, fellC |-> FALSE]
      [] w = "ticks" -> [ticks |-> 0]
      [] w = "since" -> [since |-> 0, changes |-> 0]
      [] OTHER       -> [cur   |-> NoRun(btn),
                         prev  |-> [n |-> 0, fromLow |-> FALSE],
                         edges |-> <<>>]

SinceCap == MaxThreshold + 2

\* The length of the runs that are followed tick by tick.
MaxTicks == 4

\* The length of the runs in which the event queue is left to fill.
FillTicks == 14

\* The history h of a button after a DB_Update that found it as btn, read in
\* for it, left it as btn1 and pushed evs for it.
Observe(w, h, btn, btn1, in, evs) ==
    CASE w = "runs"  -> Record(h, btn, in, evs)
      [] w = "own"   -> [own   |-> LastN(RetainCap, h.own \o evs),
                         ticks |-> h.ticks + 1]
      [] w = "ticks" -> [ticks |-> h.ticks + 1]
      [] w = "polls" ->
            LET up   == ~DB_Rd(btn) /\ DB_Rd(btn1)
                down == DB_Rd(btn) /\ ~DB_Rd(btn1)
            IN [rose |-> h.rose \/ up,   roseC |-> h.roseC \/ up,
                fell |-> h.fell \/ down, fellC |-> h.fellC \/ down]
      [] w = "since" -> IF DB_Rd(btn) # DB_Rd(btn1)
                        THEN [since |-> 0, changes |-> Min(h.changes + 1, 2)]
                        ELSE [h EXCEPT !.since = Min(h.since + 1, SinceCap)]
      [] w = "variant" -> H_UpdateButton(h, in)
      [] OTHER       -> h

\* The history h of a button after the polling function op was called on it.
Polled(w, h, op) ==
    CASE w = "polls" ->
            (CASE op = "DB_Rising"  -> [h EXCEPT !.rose = FALSE, !.roseC = FALSE]
               [] op = "DB_Falling" -> [h EXCEPT !.fell = FALSE, !.fellC = FALSE]
               [] op = "DB_Changed" -> [h EXCEPT !.roseC = FALSE, !.fellC = FALSE]
               [] OTHER             -> h)
      [] w = "variant" ->
            (CASE op = "DB_Rising"  -> H_DB_Rising(h).btn
               [] op = "DB_Falling" -> H_DB_Falling(h).btn
               [] OTHER             -> h)
      [] OTHER -> h

\* ------------------------------------------------------------------ actions
\* SeedButton without in * threshold: the counter is seeded 0 whatever the pin reads.
SeedButton_CounterZero(p, th, in) ==
    [pin |-> p, threshold |-> th, _state |-> BoolToInt(in), _counter |-> 0]

\* The body of DB_Init's loop: the button with pin p and threshold th after
\* its pin has read in.
SeedButton(p, th, in) ==
    [pin       |-> p,
     threshold |-> th,
     _state    |-> BoolToInt(in),
     _counter  |-> BoolToInt(in) * th]

\* DB_Init(db, buttons, count, rd) on a caller's array whose length is one
\* of counts and whose thresholds are among ths; every pin is read once.
\* DB_Init returns void and tests none of its arguments.  w is the history
\* to record.
InitOver(counts, ths, w) ==
    \E n \in counts :
    \E th \in [0 .. (n - 1) -> ths], rd \in [0 .. (n - 1) -> BOOLEAN] :
        /\ db = [btns     |-> [i \in 0 .. (n - 1) |-> SeedButton(PinOf(i), th[i], rd[i])],
                 count    |-> n,
                 ev_queue |-> [s \in Slots |-> Unwritten],
                 front    |-> 0,
                 back     |-> 0]
        /\ call = [op |-> "DB_Init", btn |-> -1, ret |-> "void", in |-> rd]
        /\ watch = w
        /\ hist = [i \in 0 .. (n - 1) |-> NoHistory(w, db.btns[i])]
        /\ recent = <<>>
        /\ retained = <<>>
        /\ sincePop = 0
        /\ overflowed = FALSE

\* DB_Init as its documentation asks for it to be called: n buttons,
\* thresholds in 1 .. maxTh.
InitWith(n, maxTh, w) == InitOver({n}, 1 .. maxTh, w)

DB_Update ==
    \E rd \in [Buttons -> BOOLEAN] :
        LET st == UpdateLoop([db |-> db, evs |-> <<>>], 0, rd)
        IN /\ watch = "ticks" => \A i \in Buttons : hist[i].ticks < MaxTicks
           /\ watch = "own" => \A i \in Buttons : hist[i].ticks < FillTicks
           /\ db' = st.db
           /\ call' = [op |-> "DB_Update", btn |-> -1, ret |-> "void", in |-> rd]
           /\ hist' = [i \in Buttons |->
                         Observe(watch, hist[i], db.btns[i], st.db.btns[i], rd[i],
                                 OfPin(st.evs, db.btns[i].pin))]
           /\ IF watch # "queue"
              THEN UNCHANGED <<recent, retained, sincePop, overflowed>>
              ELSE /\ recent' = LastN(EVENT_QUEUE_SIZE, recent \o st.evs)
                   /\ retained' = LastN(RetainCap, retained \o st.evs)
                   /\ sincePop' = Min(sincePop + Len(st.evs), SincePopCap)
                   /\ overflowed' =
                        (overflowed \/ Len(retained) + Len(st.evs) > RetainCap)
           /\ UNCHANGED watch

Call_DB_Rd ==
    \E i \in Buttons :
        /\ call' = [op |-> "DB_Rd", btn |-> i, ret |-> DB_Rd(db.btns[i])]
        /\ UNCHANGED <<db, watch, hist, recent, retained, sincePop, overflowed>>

Call_DB_Rising ==
    \E i \in Buttons :
        LET r == DB_Rising(db.btns[i])
        IN /\ db' = [db EXCEPT !.btns[i] = r.btn]
           /\ call' = [op |-> "DB_Rising", btn |-> i, ret |-> r.ret]
           /\ hist' = [hist EXCEPT ![i] = Polled(watch, hist[i], "DB_Rising")]
           /\ UNCHANGED <<watch, recent, retained, sincePop, overflowed>>

Call_DB_Falling ==
    \E i \in Buttons :
        LET r == DB_Falling(db.btns[i])
        IN /\ db' = [db EXCEPT !.btns[i] = r.btn]
           /\ call' = [op |-> "DB_Falling", btn |-> i, ret |-> r.ret]
           /\ hist' = [hist EXCEPT ![i] = Polled(watch, hist[i], "DB_Falling")]
           /\ UNCHANGED <<watch, recent, retained, sincePop, overflowed>>

Call_DB_Pop_Event ==
    LET r == DB_Pop_Event(QueueOf(db))
    IN /\ db' = WithQueue(db, r.q)
       /\ call' = [op |-> "DB_Pop_Event", btn |-> -1, ret |-> r.ret]
       /\ IF watch # "queue"
          THEN UNCHANGED <<retained, sincePop>>
          ELSE /\ retained' = IF retained = <<>> THEN retained ELSE Tail(retained)
               /\ sincePop' = 0
       /\ UNCHANGED <<watch, hist, recent, overflowed>>

\* ------------------------------------------- the variant with a callback
\* The debouncer that hands its events to db->cb instead of queueing them and
\* adds DB_Changed.  Its DB_Rd, DB_Rising and DB_Falling are those above.
DB_RISING_EDGE == "DB_RISING_EDGE"
DB_FALLING_EDGE == "DB_FALLING_EDGE"

\* db->cb == NULL: callbacks disabled.
NULL_CB == "NULL"
Callbacks == {NULL_CB, "Event_Handler"}

\* What DB_Update does outside the handle, in order: a call rd(pin) of
\* button i that returned val, or a call cb(ev) with ev.btn button i, during
\* which DB_Rd(ev.btn) is val.
Read(i, v) == [op |-> "rd", btn |-> i, ev_type |-> "none", val |-> v]
Callback(i, t, v) == [op |-> "cb", btn |-> i, ev_type |-> t, val |-> v]

\* The rising branch calling cb whether or not the level was already high.
IntegrateHighCb_NoLevelTest(btn, i, cb) ==
    IF btn._counter < btn.threshold
    THEN [btn |-> [btn EXCEPT !._counter = btn._counter + 1], cbs |-> <<>>]
    ELSE LET latched == [btn EXCEPT !._state = BitOr(btn._state, rising_edge)]
         IN [btn |-> [latched EXCEPT !._state = BitOr(latched._state, curr_state)],
             cbs |-> IF cb # NULL_CB
                     THEN <<Callback(i, DB_RISING_EDGE, DB_Rd(latched))>>
                     ELSE <<>>]

\* The branch of DB_Update for a pin that reads true, for the i-th button:
\* the button afterwards and the callback calls made.  cb runs between the
\* setting of the latch and the setting of the level bit.
IntegrateHighCb(btn, i, cb) ==
    IF btn._counter < btn.threshold
    THEN [btn |-> [btn EXCEPT !._counter = btn._counter + 1], cbs |-> <<>>]
    ELSE IF BitAnd(btn._state, curr_state) = 0
         THEN LET latched == [btn EXCEPT !._state = BitOr(btn._state, rising_edge)]
              IN [btn |-> [latched EXCEPT !._state =
                                       BitOr(latched._state, curr_state)],
                  cbs |-> IF cb # NULL_CB
                          THEN <<Callback(i, DB_RISING_EDGE, DB_Rd(latched))>>
                          ELSE <<>>]
         ELSE [btn |-> [btn EXCEPT !._state = BitOr(btn._state, curr_state)],
               cbs |-> <<>>]

\* The falling branch without the setting of the falling latch.
IntegrateLowCb_NoLatch(btn, i, cb) ==
    IF btn._counter # 0
    THEN [btn |-> [btn EXCEPT !._counter = btn._counter - 1], cbs |-> <<>>]
    ELSE [btn |-> [btn EXCEPT !._state = BitAnd(btn._state, BitNot(curr_state))],
          cbs |-> IF cb # NULL_CB /\ BitAnd(btn._state, curr_state) = 1
                  THEN <<Callback(i, DB_FALLING_EDGE, DB_Rd(btn))>>
                  ELSE <<>>]

\* The branch for a pin that reads false.
IntegrateLowCb(btn, i, cb) ==
    IF btn._counter # 0
    THEN [btn |-> [btn EXCEPT !._counter = btn._counter - 1], cbs |-> <<>>]
    ELSE IF BitAnd(btn._state, curr_state) = 1
         THEN LET latched == [btn EXCEPT !._state = BitOr(btn._state, falling_edge)]
              IN [btn |-> [latched EXCEPT !._state =
                                       BitAnd(latched._state, BitNot(curr_state))],
                  cbs |-> IF cb # NULL_CB
                          THEN <<Callback(i, DB_FALLING_EDGE, DB_Rd(latched))>>
                          ELSE <<>>]
         ELSE [btn |-> [btn EXCEPT !._state =
                           BitAnd(btn._state, BitNot(curr_state))],
               cbs |-> <<>>]

UpdateButtonCb(btn, i, in, cb) ==
    IF in THEN IntegrateHighCb(btn, i, cb) ELSE IntegrateLowCb(btn, i, cb)

\* The for loop from index i on; st.log is what the call did outside so far.
RECURSIVE UpdateLoopCb(_, _, _)
UpdateLoopCb(st, i, rd) ==
    IF i >= st.db.count THEN st
    ELSE LET r == UpdateButtonCb(st.db.btns[i], i, rd[i], st.db.cb)
         IN UpdateLoopCb([db  |-> [st.db EXCEPT !.btns[i] = r.btn],
                          log |-> st.log \o <<Read(i, rd[i])>> \o r.cbs],
                         i + 1, rd)

\* DB_Changed that clears the rising latch only.
DB_Changed_ClearsRisingOnly(btn) ==
    IF BitAnd(btn._state, BitOr(rising_edge, falling_edge)) # 0
    THEN [btn |-> [btn EXCEPT !._state = BitAnd(btn._state, BitNot(rising_edge))],
          ret |-> TRUE]
    ELSE [btn |-> btn, ret |-> FALSE]

DB_Changed(btn) ==
    IF BitAnd(btn._state, BitOr(rising_edge, falling_edge)) # 0
    THEN [btn |-> [btn EXCEPT !._state =
                      BitAnd(btn._state, BitNot(BitOr(rising_edge, falling_edge)))],
          ret |-> TRUE]
    ELSE [btn |-> btn, ret |-> FALSE]

\* DB_Init(db, buttons, count, rd, cb) of the callback variant: n buttons,
\* thresholds in 1 .. maxTh, cb one of cbs.
InitCb(n, maxTh, cbs, w) ==
    \E th \in [0 .. (n - 1) -> 1 .. maxTh], rd \in [0 .. (n - 1) -> BOOLEAN],
       cb \in cbs :
        /\ db = [btns  |-> [i \in 0 .. (n - 1) |-> SeedButton(PinOf(i), th[i], rd[i])],
                 count |-> n,
                 cb    |-> cb]
        /\ call = [op |-> "DB_Init", btn |-> -1, ret |-> "void", in |-> rd]
        /\ watch = w
        /\ hist = [i \in 0 .. (n - 1) |-> NoHistory(w, db.btns[i])]
        /\ recent = <<>>
        /\ retained = <<>>
        /\ sincePop = 0
        /\ overflowed = FALSE

DB_UpdateCb ==
    \E rd \in [Buttons -> BOOLEAN] :
        LET st == UpdateLoopCb([db |-> db, log |-> <<>>], 0, rd)
        IN /\ watch = "ticks" => \A i \in Buttons : hist[i].ticks < MaxTicks
           /\ db' = st.db
           /\ call' = [op |-> "DB_Update", btn |-> -1, ret |-> "void", in |-> rd,
                       log |-> st.log]
           /\ hist' = [i \in Buttons |->
                         Observe(watch, hist[i], db.btns[i], st.db.btns[i], rd[i],
                                 <<>>)]
           /\ UNCHANGED <<watch, recent, retained, sincePop, overflowed>>

Call_DB_Changed ==
    \E i \in Buttons :
        LET r == DB_Changed(db.btns[i])
        IN /\ db' = [db EXCEPT !.btns[i] = r.btn]
           /\ call' = [op |-> "DB_Changed", btn |-> i, ret |-> r.ret]
           /\ hist' = [hist EXCEPT ![i] = Polled(watch, hist[i], "DB_Changed")]
           /\ UNCHANGED <<watch, recent, retained, sincePop, overflowed>>

\* ----------------------------------------------------------- specifications
\* A handle over a one-button array, every API function callable at any time.
Init == InitWith(1, MaxThreshold, "none")

Next ==
    \/ DB_Update
    \/ Call_DB_Rd
    \/ Call_DB_Rising
    \/ Call_DB_Falling
    \/ Call_DB_Pop_Event

Spec == Init /\ [][Next]_vars

\* The polling client: DB_Update on the tick, DB_Rising / DB_Falling at
\* any time, the event queue never read.  The runs of samples are recorded.
InitPoll == InitWith(1, MaxThreshold, "runs")

NextPoll ==
    \/ DB_Update
    \/ Call_DB_Rising
    \/ Call_DB_Falling

SpecPoll == InitPoll /\ [][NextPoll]_vars

\* The event client: DB_Update on the tick, DB_Pop_Event at any time.  The
\* pushes are recorded.
InitQueue == InitWith(1, MaxThreshold, "queue")

NextQueue ==
    \/ DB_Update
    \/ Call_DB_Pop_Event

SpecQueue == InitQueue /\ [][NextQueue]_vars

\* The polling client, with the DB_Update calls since the last change of
\* level counted.
InitSince == InitWith(1, MaxThreshold, "since")

SpecSince == InitSince /\ [][NextPoll]_vars

\* The polling client on the tick: DB_Update is called again and again.  The
\* variant with a previous-level bit runs alongside on the same samples and
\* polls.
InitVariants == InitWith(1, MaxThreshold, "variant")

SpecVariants == InitVariants /\ [][NextPoll]_vars /\ WF_vars(DB_Update)

\* Two buttons of threshold 1 on one handle for the first FillTicks ticks
\* after DB_Init, the event queue left to fill.  Each button's own events are
\* recorded.
InitPair == InitWith(2, 1, "own")

NextPair == DB_Update

SpecPair == InitPair /\ [][NextPair]_vars

\* Two buttons on one handle for the first MaxTicks ticks after DB_Init, every
\* API function callable at any time.
InitShort == InitWith(2, MaxThreshold, "ticks")

SpecShort == InitShort /\ [][Next]_vars

\* The callback variant on two buttons, with and without a callback, for the
\* first MaxTicks ticks after DB_Init, every function callable at any time
\* between DB_Update calls.
InitCallback == InitCb(2, MaxThreshold, Callbacks, "ticks")

NextCb ==
    \/ DB_UpdateCb
    \/ Call_DB_Rd
    \/ Call_DB_Rising
    \/ Call_DB_Falling
    \/ Call_DB_Changed

SpecCb == InitCallback /\ [][NextCb]_vars

\* The callback variant on one button polled with DB_Rising, DB_Falling and
\* DB_Changed; what happened since the last poll is recorded.
InitCbPoll == InitCb(1, MaxThreshold, Callbacks, "polls")

NextCbPoll ==
    \/ DB_UpdateCb
    \/ Call_DB_Rising
    \/ Call_DB_Falling
    \/ Call_DB_Changed

SpecCbPoll == InitCbPoll /\ [][NextCbPoll]_vars

\* Any caller: the array may be empty and a threshold may be 0.
InitConfig == InitOver(0 .. 1, 0 .. MaxThreshold, "none")

SpecConfig == InitConfig /\ [][Next]_vars

\* ------------------------------------------------------------------- claims
Level(s) == BitAnd(s, curr_state) # 0
HasRising(s) == BitAnd(s, rising_edge) # 0
HasFalling(s) == BitAnd(s, falling_edge) # 0

\* C1 (as claimed): a button that was low with _counter = 0 and has since read
\* exactly threshold consecutive true samples reads true through DB_Rd and has
\* emitted exactly one RISING edge.
C1_RisesAfterThresholdTrues ==
    \A i \in Buttons :
        LET b == db.btns[i]
            r == hist[i].cur
        IN (r.n = b.threshold /\ r.val /\ r.c0 = 0 /\ ~Level(r.s0))
              => (DB_Rd(b) /\ r.rising = 1)

\* C2 (as claimed): a button that was high with _counter = threshold and has
\* since read exactly threshold consecutive false samples has _counter = 0,
\* reads false through DB_Rd and has emitted exactly one FALLING edge.
C2_FallsAfterThresholdFalses ==
    \A i \in Buttons :
        LET b == db.btns[i]
            r == hist[i].cur
        IN (r.n = b.threshold /\ ~r.val /\ r.c0 = b.threshold /\ Level(r.s0))
              => (b._counter = 0 /\ ~DB_Rd(b) /\ r.falling = 1)

\* C3 (as claimed): with threshold = 1, after every DB_Update the debounced
\* level DB_Rd returns is the sample that DB_Update read.
C3_ThresholdOneFollowsSample ==
    \A i \in Buttons :
        (db.btns[i].threshold = 1 /\ hist[i].cur.n > 0)
            => (DB_Rd(db.btns[i]) = hist[i].cur.val)

\* Button i reads low, has no latch set and its current run emitted no edge.
C4_Quiet(i) ==
    /\ ~DB_Rd(db.btns[i])
    /\ db.btns[i]._state = 0
    /\ hist[i].cur.rising = 0
    /\ hist[i].cur.falling = 0

\* C4: noise rejection.  A button confirmed low (_counter = 0, level low, no
\* latch set) that reads k < threshold consecutive true samples and then one
\* false sample reads false through DB_Rd, has no latch set and has emitted
\* no event, both during the true samples and after the false one.
C4_NoiseRejected ==
    \A i \in Buttons :
        LET b == db.btns[i]
            h == hist[i]
        IN /\ (h.cur.n > 0 /\ h.cur.val /\ h.cur.c0 = 0 /\ h.cur.s0 = 0
                 /\ h.cur.n < b.threshold)
              => C4_Quiet(i)
           /\ (~h.cur.val /\ h.cur.n = 1
                 /\ \/ h.prev.fromLow /\ h.prev.n < b.threshold
                    \/ h.cur.c0 = 0 /\ h.cur.s0 = 0)
              => C4_Quiet(i)

\* The false sample has just been read after threshold - 1 >= 1 true samples.
C4_Witness ==
    \E i \in Buttons :
        /\ call.op = "DB_Update"
        /\ ~hist[i].cur.val /\ hist[i].cur.n = 1
        /\ hist[i].prev.fromLow
        /\ hist[i].prev.n >= 1
        /\ hist[i].prev.n = db.btns[i].threshold - 1

\* C5: no duplicate edges.  In a run of true samples that began saturated high
\* the counter stays at threshold, the level stays high, no edge is emitted
\* and the rising latch is not set again; a run of true samples emits at most
\* one RISING and no FALLING, a run of false samples at most one FALLING and no
\* RISING; and of two successive edges of a button one is RISING and the other
\* FALLING.
C5_NoDuplicateEdges ==
    \A i \in Buttons :
        LET b == db.btns[i]
            h == hist[i]
        IN /\ (h.cur.n > 0 /\ h.cur.val /\ h.cur.c0 = b.threshold /\ Level(h.cur.s0))
              => /\ b._counter = b.threshold
                 /\ DB_Rd(b)
                 /\ h.cur.rising = 0 /\ h.cur.falling = 0
                 /\ HasRising(b._state) => HasRising(h.cur.s0)
                 /\ HasFalling(b._state) => HasFalling(h.cur.s0)
           /\ (h.cur.n > 0 /\ h.cur.val) => (h.cur.rising <= 1 /\ h.cur.falling = 0)
           /\ (h.cur.n > 0 /\ ~h.cur.val) => (h.cur.falling <= 1 /\ h.cur.rising = 0)
           /\ Len(h.edges) = 2 => h.edges[1] # h.edges[2]

\* A long run of true samples that rose once, after an earlier FALLING, and
\* went on past the rise.
C5_Witness ==
    \E i \in Buttons :
        /\ hist[i].cur.val /\ hist[i].cur.n = RunCap
        /\ hist[i].cur.rising = 1
        /\ hist[i].edges = <<FALLING, RISING>>
        /\ db.btns[i]._counter = db.btns[i].threshold

\* C6: 0 <= _counter <= threshold for every button, in every state.
C6_CounterBounded ==
    \A i \in Buttons :
        /\ db.btns[i]._counter >= 0
        /\ db.btns[i]._counter <= db.btns[i].threshold

\* DB_Update has left a button at the upper rail that has been high, fallen
\* and risen again.
C6_Witness ==
    \E i \in Buttons :
        /\ call.op = "DB_Update"
        /\ db.btns[i]._counter = db.btns[i].threshold
        /\ db.btns[i].threshold = MaxThreshold
        /\ Level(db.btns[i]._state)
        /\ HasFalling(db.btns[i]._state) /\ HasRising(db.btns[i]._state)

\* What one step may do to the latches of button i and what it returns.
C7_Step(i) ==
    /\ (call'.op = "DB_Rising" /\ call'.btn = i)
          => /\ IF HasRising(db.btns[i]._state)
                THEN call'.ret = TRUE /\ ~HasRising(db'.btns[i]._state)
                ELSE call'.ret = FALSE /\ db' = db
             /\ (call.op = "DB_Rising" /\ call.btn = i) => call'.ret = FALSE
    /\ (call'.op = "DB_Falling" /\ call'.btn = i)
          => /\ IF HasFalling(db.btns[i]._state)
                THEN call'.ret = TRUE /\ ~HasFalling(db'.btns[i]._state)
                ELSE call'.ret = FALSE /\ db' = db
             /\ (call.op = "DB_Falling" /\ call.btn = i) => call'.ret = FALSE
    /\ call'.op # "DB_Update"
          => /\ HasRising(db'.btns[i]._state) => HasRising(db.btns[i]._state)
             /\ HasFalling(db'.btns[i]._state) => HasFalling(db.btns[i]._state)

\* C7: latch-consume.  DB_Rising (DB_Falling) on a button whose rising
\* (falling) latch is set returns true and clears that latch; on a button
\* whose latch is clear it returns false and changes nothing; a call straight
\* after a call on the same button returns false; and no call other than
\* DB_Update sets a latch, so a second call with no DB_Update in between
\* returns false.
C7_LatchConsume == [][\A i \in Buttons : C7_Step(i)]_vars

\* DB_Rising has just returned true on a button whose falling latch is set too.
C7_Witness ==
    \E i \in Buttons :
        /\ call.op = "DB_Rising" /\ call.btn = i /\ call.ret = TRUE
        /\ ~HasRising(db.btns[i]._state)
        /\ HasFalling(db.btns[i]._state)

\* C8: latch persistence.  DB_Update never clears an edge latch.
C8_UpdateKeepsLatches ==
    [][call'.op = "DB_Update"
         => \A i \in Buttons :
               /\ HasRising(db.btns[i]._state) => HasRising(db'.btns[i]._state)
               /\ HasFalling(db.btns[i]._state) => HasFalling(db'.btns[i]._state)]_vars

\* DB_Update has left the level low with both latches set: the rising latch
\* has stayed through the samples that took the level back down.
C8_Witness ==
    \E i \in Buttons :
        /\ call.op = "DB_Update"
        /\ db.btns[i]._state = falling_edge + rising_edge

C10_PopIsFifo ==
    [][/\ Contents(QueueOf(db)) = retained
       /\ call'.op = "DB_Pop_Event"
             => IF retained = <<>>
                THEN call'.ret = NULL
                ELSE /\ call'.ret # NULL
                     /\ call'.ret.ev = Head(retained)
                     /\ Contents(QueueOf(db')) = Tail(retained)]_vars

\* DB_Pop_Event has returned an event after an overflow, with events left.
C10_Witness ==
    /\ call.op = "DB_Pop_Event"
    /\ call.ret # NULL
    /\ overflowed
    /\ Len(retained) >= 1
    /\ sincePop = 0

\* The handle was set up from an empty array or holds a button of threshold 0.
BadConfig ==
    \/ db.count = 0
    \/ \E i \in Buttons : db.btns[i].threshold = 0

\* C11 (as claimed): DB_Init called with count = 0 or with a button whose
\* threshold is 0 returns a failure result and the handle is never used as an
\* initialized one.
C11_InitReportsConfigError ==
    BadConfig => (call.op = "DB_Init" /\ call.ret # "void")

\* C12: right after DB_Init every button's level is the sample its pin read,
\* its _counter is threshold for a true sample and 0 for a false one, both
\* latches are clear and the event queue is empty; and a button seeded high
\* that has read only true samples since still reads true through DB_Rd, with
\* no edge latched or pushed.
C12_InitSeeds ==
    \A i \in Buttons :
        LET b == db.btns[i]
            h == hist[i]
        IN /\ call.op = "DB_Init" =>
                /\ DB_Rd(b) = call.in[i]
                /\ b._counter = (IF call.in[i] THEN b.threshold ELSE 0)
                /\ ~HasRising(b._state) /\ ~HasFalling(b._state)
                /\ Contents(QueueOf(db)) = <<>>
                /\ h.edges = <<>>
           /\ (h.prev.n = 0 /\ h.cur.n > 0 /\ h.cur.val
                 /\ Level(h.cur.s0) /\ h.cur.c0 = b.threshold) =>
                /\ DB_Rd(b)
                /\ b._counter = b.threshold
                /\ ~HasRising(b._state) /\ ~HasFalling(b._state)
                /\ h.edges = <<>>
                /\ Contents(QueueOf(db)) = <<>>

\* A button seeded high has read true on more DB_Update calls than its threshold.
C12_Witness ==
    \E i \in Buttons :
        /\ hist[i].prev.n = 0 /\ hist[i].cur.val /\ Level(hist[i].cur.s0)
        /\ hist[i].cur.n > db.btns[i].threshold
        /\ db.btns[i].threshold = MaxThreshold

\* In a DB_Update step button i ends as its own loop pass leaves it, given
\* its own state before and its own sample, and emits that pass's events.
OwnStep(i) ==
    call'.op = "DB_Update" =>
        LET r == UpdateButton(db.btns[i], call'.in[i])
        IN /\ db'.btns[i] = r.btn
           /\ hist'[i].own = LastN(RetainCap, hist[i].own \o r.evs)

\* The events of button i that the event queue holds.
QueuedOf(i) == OfPin(Contents(QueueOf(db)), db.btns[i].pin)

\* C13 (as claimed): on a handle of two buttons, each button's _counter,
\* level, latches and emitted edges follow from its own threshold, seed and
\* samples alone, and so do the events of the button that the event queue
\* holds: they are what a queue of the button's own would hold.
C13_IndependentWithQueue ==
    [][\A i \in Buttons : OwnStep(i) /\ (QueuedOf(i) = hist[i].own)']_vars

\* C13 (amended): each button's _counter, level, latches and emitted edges
\* follow from its own threshold, seed and samples alone; of the button's
\* events the shared queue holds the most recent ones, in order - how many
\* depends on the other buttons' events.
C13_IndependentButQueueShared ==
    [][\A i \in Buttons :
          /\ OwnStep(i)
          /\ LET q == QueuedOf(i)'
             IN q = LastN(Len(q), hist'[i].own)]_vars

\* The queue holds events of both buttons and fewer of one button's than a
\* queue of its own would.
C13_Witness ==
    /\ \A i \in Buttons : QueuedOf(i) # <<>>
    /\ \E i \in Buttons : Len(QueuedOf(i)) < Len(hist[i].own)

\* The events that the loop passes of buttons i, i + 1, ... of handle d emit
\* when their pins read rd, in array order.
RECURSIVE TickEvents(_, _, _)
TickEvents(d, rd, i) ==
    IF i >= d.count THEN <<>>
    ELSE UpdateButton(d.btns[i], rd[i]).evs \o TickEvents(d, rd, i + 1)

\* C14: a DB_Update reads every pin once and appends the events of its tick
\* to the event queue in array order of their buttons, behind the events that
\* earlier DB_Update calls left there (the oldest give way on overflow).
C14_EventsInButtonOrder ==
    [][call'.op = "DB_Update" =>
          /\ DOMAIN call'.in = Buttons
          /\ Contents(QueueOf(db')) =
                LastN(RetainCap,
                      Contents(QueueOf(db)) \o TickEvents(db, call'.in, 0))]_vars

\* Both buttons changed level in one tick and again in a later tick: the
\* queue holds the four events, each tick's pair in array order.
C14_Witness ==
    /\ call.op = "DB_Update"
    /\ db.count = 2
    /\ LET c == Contents(QueueOf(db))
       IN /\ Len(c) = 4
          /\ c[1].pin = db.btns[0].pin /\ c[2].pin = db.btns[1].pin
          /\ c[3].pin = db.btns[0].pin /\ c[4].pin = db.btns[1].pin

\* The positions of log at which button i's pin is read / cb is called for
\* button i.
ReadsOf(log, i) == {k \in 1 .. Len(log) : log[k].op = "rd" /\ log[k].btn = i}
CallbacksOf(log, i) == {k \in 1 .. Len(log) : log[k].op = "cb" /\ log[k].btn = i}

\* C15: in the callback variant a DB_Update reads each pin once, in array
\* order; with a callback set it calls it once for each button whose level
\* flips in the tick, with that button and the edge type of the flip, before
\* the next button's pin is read, and for no other button; with cb == NULL it
\* calls nothing.  Either way the flip sets the button's latch.
C15_CallbackPerFlip ==
    [][call'.op = "DB_Update" =>
         LET log == call'.log
         IN /\ \A k, l \in 1 .. Len(log) :
                  k < l => /\ log[k].btn <= log[l].btn
                           /\ log[k].btn = log[l].btn =>
                                 (log[k].op = "rd" /\ log[l].op = "cb")
            /\ \A i \in Buttons :
                  LET up   == ~DB_Rd(db.btns[i]) /\ DB_Rd(db'.btns[i])
                      down == DB_Rd(db.btns[i]) /\ ~DB_Rd(db'.btns[i])
                  IN /\ Cardinality(ReadsOf(log, i)) = 1
                     /\ Cardinality(CallbacksOf(log, i)) =
                           (IF db.cb # NULL_CB /\ (up \/ down) THEN 1 ELSE 0)
                     /\ \A k \in CallbacksOf(log, i) :
                           log[k].ev_type =
                              (IF up THEN DB_RISING_EDGE ELSE DB_FALLING_EDGE)
                     /\ up => HasRising(db'.btns[i]._state)
                     /\ down => HasFalling(db'.btns[i]._state)]_vars

\* A DB_Update in which both buttons flipped and the callback ran for each.
C15_Witness ==
    /\ call.op = "DB_Update"
    /\ db.cb # NULL_CB
    /\ Len(call.log) = 4
    /\ call.log[2].op = "cb" /\ call.log[2].btn = 0
    /\ call.log[3].op = "rd" /\ call.log[3].btn = 1
    /\ call.log[4].op = "cb" /\ call.log[4].ev_type # call.log[2].ev_type

Polls == {"DB_Changed", "DB_Rising", "DB_Falling"}

\* C16: DB_Changed returns true exactly when the rising or the falling latch
\* of the button is set, and leaves both clear and the rest of the button as
\* it was; a DB_Changed, DB_Rising or DB_Falling call on the same button right
\* after it returns false.
C16_ChangedConsumesBoth ==
    [][\A i \in Buttons :
          LET b  == db.btns[i]
              b1 == db'.btns[i]
          IN /\ (call'.op = "DB_Changed" /\ call'.btn = i) =>
                   /\ call'.ret = (HasRising(b._state) \/ HasFalling(b._state))
                   /\ ~HasRising(b1._state) /\ ~HasFalling(b1._state)
                   /\ DB_Rd(b1) = DB_Rd(b)
                   /\ b1._counter = b._counter
             /\ (call.op = "DB_Changed" /\ call.btn = i
                   /\ call'.op \in Polls /\ call'.btn = i) =>
                   call'.ret = FALSE]_vars

\* DB_Changed has just returned true on a button, whose latches are clear.
C16_Witness ==
    /\ call.op = "DB_Changed"
    /\ call.ret = TRUE
    /\ ~HasRising(db.btns[call.btn]._state)
    /\ ~HasFalling(db.btns[call.btn]._state)

\* C17 (as claimed): whatever the interleaving of DB_Update, DB_Rising,
\* DB_Falling and DB_Changed, DB_Rising returns true exactly when the level
\* has gone from false to true in some DB_Update since the previous DB_Rising
\* call on the button (or since DB_Init), and DB_Falling likewise for true to
\* false and the previous DB_Falling call.
C17_EdgeSinceLastSamePoll ==
    [][\A i \in Buttons :
          /\ (call'.op = "DB_Rising" /\ call'.btn = i) => call'.ret = hist[i].rose
          /\ (call'.op = "DB_Falling" /\ call'.btn = i) => call'.ret = hist[i].fell]_vars

\* C17 (amended): DB_Rising returns true exactly when the level has gone from
\* false to true in some DB_Update since the previous DB_Rising or DB_Changed
\* call on the button (or since DB_Init), and DB_Falling likewise for true to
\* false and the previous DB_Falling or DB_Changed call.
C17_EdgeSinceLastPoll ==
    [][\A i \in Buttons :
          /\ (call'.op = "DB_Rising" /\ call'.btn = i) => call'.ret = hist[i].roseC
          /\ (call'.op = "DB_Falling" /\ call'.btn = i) => call'.ret = hist[i].fellC]_vars

\* DB_Rising has just returned true on a button of which a fall since the
\* last DB_Falling call was consumed by DB_Changed.
C17_Witness ==
    \E i \in Buttons :
        /\ call.op = "DB_Rising" /\ call.btn = i /\ call.ret = TRUE
        /\ hist[i].fell /\ ~hist[i].fellC

\* C18: a DB_Update that changes a button's debounced level is at least the
\* threshold-th DB_Update since the level last changed, or since DB_Init if it
\* has not changed before.
C18_MinimumSpacing ==
    [][\A i \in Buttons :
          (call'.op = "DB_Update" /\ DB_Rd(db'.btns[i]) # DB_Rd(db.btns[i]))
             => hist[i].since + 1 >= db.btns[i].threshold]_vars

\* A button of the largest threshold has just changed level for the second time.
C18_Witness ==
    \E i \in Buttons :
        /\ call.op = "DB_Update"
        /\ hist[i].since = 0 /\ hist[i].changes = 2
        /\ db.btns[i].threshold = MaxThreshold

\* Button i with its latch bits of mask m masked out.
Without(btn, m) == [btn EXCEPT !._state = BitAnd(btn._state, BitNot(m))]

\* The accessor op has just been called on button i: every other button, the
\* event queue and the rest of the handle are as before, and of button i
\* nothing changed but, possibly, the bits of mask m.
Framed(op, m) ==
    call'.op = op =>
        /\ QueueOf(db') = QueueOf(db)
        /\ db'.count = db.count
        /\ \A j \in Buttons :
              IF j = call'.btn
              THEN Without(db'.btns[j], m) = Without(db.btns[j], m)
              ELSE db'.btns[j] = db.btns[j]

\* C19: DB_Rd changes nothing and returns the level bit, which is as the last
\* DB_Update left it; DB_Rising changes at most the rising latch bit and
\* DB_Falling at most the falling latch bit of the button they are given:
\* _counter, level, the other latch, every other button and the event queue
\* stay as they were.
C19_AccessorFrames ==
    [][/\ Framed("DB_Rd", 0)
       /\ Framed("DB_Rising", rising_edge)
       /\ Framed("DB_Falling", falling_edge)
       /\ call'.op = "DB_Rd" => call'.ret = Level(db.btns[call'.btn]._state)
       /\ call'.op # "DB_Update" =>
             \A j \in Buttons : DB_Rd(db'.btns[j]) = DB_Rd(db.btns[j])]_vars

\* DB_Rising has just cleared the rising latch of one button while the other
\* button has a latch set and the event queue holds events.
C19_Witness ==
    /\ call.op = "DB_Rising" /\ call.ret = TRUE
    /\ \E j \in Buttons :
          j # call.btn /\ BitAnd(db.btns[j]._state, rising_edge + falling_edge) # 0
    /\ Contents(QueueOf(db)) # <<>>

\* The DB_Update step has pushed exactly the event ev.
Pushed(ev) ==
    /\ db'.back = (db.back + 1) % EVENT_QUEUE_SIZE
    /\ db'.ev_queue = [db.ev_queue EXCEPT ![db.back] = ev]

Differ(i) ==
    \/ HasRising(db.btns[i]._state) # (BitAnd(hist[i]._state, H_rising_edge) # 0)
    \/ HasFalling(db.btns[i]._state) # (BitAnd(hist[i]._state, H_falling_edge) # 0)
    \/ DB_Rd(db.btns[i]) # DB_Rd(hist[i])

C22_CallbackSeesNewLevel ==
    call.op = "DB_Update" =>
        \A k \in 1 .. Len(call.log) :
            call.log[k].op = "cb" =>
                call.log[k].val = (call.log[k].ev_type = DB_RISING_EDGE)

====
